---- MODULE Spec2Model ----
(***************************************************************************)
(* LinkedIn Lead Scorer: the card watcher (scripts/content.js) and the     *)
(* provider adapter (scripts/background.js) as one state machine.          *)
(*                                                                         *)
(* Strings the code computes with (a card's textContent, a card identity)  *)
(* are sequences of UTF-16 code units; strings the code only passes on     *)
(* (error messages, reasoning) are TLA+ strings.                           *)
(***************************************************************************)
EXTENDS Integers, Sequences, FiniteSets, TLC

(***************************************************************************)
(* Program constants.                                                      *)
(***************************************************************************)
\* isValidInvitationCard: text.length < 10
ValidMinLength == 10
\* processInvitationCard: profileData.text.length < 10
SnapshotMinLength == 10
\* getCardId: text.substring(0, 100)
IdPrefixLength == 100
\* getCardId: .substring(0, 20)
IdLength == 20

(***************************************************************************)
(* Bounds of the model.                                                    *)
(***************************************************************************)
\* how many extensionReloaded messages arrive
MaxResets == 1
\* how many nodes one mutation batch adds
MaxBatch == 2

None == "none"

Min(a, b) == IF a <= b THEN a ELSE b

(***************************************************************************)
(* JavaScript string functions, on sequences of code units.                *)
(***************************************************************************)
\* WhiteSpace and LineTerminator code units: what \s matches and trim() strips
WhiteSpace ==
    {9, 10, 11, 12, 13, 32, 160, 5760, 8232, 8233, 8239, 8287, 12288, 65279}
        \cup (8192..8202)

IsSpace(c) == c \in WhiteSpace

Indices(s) == [i \in 1..Len(s) |-> i]

\* String.prototype.trim
Trim(s) ==
    LET kept == SelectSeq(Indices(s), LAMBDA i : ~IsSpace(s[i]))
    IN  IF kept = <<>> THEN <<>> ELSE SubSeq(s, kept[1], kept[Len(kept)])

\* String.prototype.substring(0, n)
Substring0(s, n) == SubSeq(s, 1, Min(n, Len(s)))

\* String.prototype.includes
Includes(s, sub) ==
    \E i \in 1..(Len(s) - Len(sub) + 1) : SubSeq(s, i, i + Len(sub) - 1) = sub

\* .replace(/\s+/g, ' '): every maximal run of white space becomes one space
CollapseSpaces(s) ==
    LET kept == SelectSeq(Indices(s),
                          LAMBDA i : ~IsSpace(s[i]) \/ i = 1 \/ ~IsSpace(s[i - 1]))
    IN  [k \in 1..Len(kept) |-> IF IsSpace(s[kept[k]]) THEN 32 ELSE s[kept[k]]]

\* .replace(/\n+/g, '\n'): every maximal run of line feeds becomes one line feed
CollapseNewlines(s) ==
    LET kept == SelectSeq(Indices(s),
                          LAMBDA i : s[i] # 10 \/ i = 1 \/ s[i - 1] # 10)
    IN  [k \in 1..Len(kept) |-> s[kept[k]]]

\* String(n) for an integer n
RECURSIVE DigitsOf(_)
DigitsOf(n) == IF n < 10 THEN <<48 + n>> ELSE DigitsOf(n \div 10) \o <<48 + (n % 10)>>

NumberToString(n) == IF n < 0 THEN <<45>> \o DigitsOf(0 - n) ELSE DigitsOf(n)

(***************************************************************************)
(* btoa: base64 of a Latin1 string.  A base64 digit is its index 0..63 in  *)
(* A-Z a-z 0-9 + /, and 64 is the padding character '='.                   *)
(***************************************************************************)
InvalidCharacter == <<-1>>

\* three bytes give four digits; a last group of one or two bytes is padded
Btoa(s) ==
    LET n == Len(s)
        byte(i) == IF i <= n THEN s[i] ELSE 0
    IN  [k \in 1..(4 * ((n + 2) \div 3)) |->
            LET i == 3 * ((k - 1) \div 4) + 1
                b1 == byte(i)
                b2 == byte(i + 1)
                b3 == byte(i + 2)
            IN  CASE (k - 1) % 4 = 0 -> b1 \div 4
                  [] (k - 1) % 4 = 1 -> (b1 % 4) * 16 + (b2 \div 16)
                  [] (k - 1) % 4 = 2 ->
                        IF i + 1 <= n THEN (b2 % 16) * 4 + (b3 \div 64) ELSE 64
                  [] OTHER -> IF i + 2 <= n THEN b3 % 64 ELSE 64]

\* btoa throws InvalidCharacterError on a code unit above 0xFF
BtoaThrows(s) == \E i \in 1..Len(s) : s[i] > 255

\* [a-zA-Z0-9] are the base64 digits 0..61; '+', '/' and '=' are not
IsAlnum(d) == d < 62

\* .replace(/[^a-zA-Z0-9]/g, '')
StripNonAlnum(s) == SelectSeq(s, IsAlnum)

(***************************************************************************)
(* The page.  An element is a list of items in document order: a text      *)
(* node, a card-content region (.artdeco-entity-lockup__content), the      *)
(* wrapper of an accept button, or a child element.  sels are the          *)
(* selectors of SELECTORS.invitationCard the element matches (1:           *)
(* .invitation-card, 2: [data-test-invitation-card], 3:                    *)
(* .artdeco-entity-lockup); img is its profile image, if any.              *)
(***************************************************************************)
Txt(s)     == [t |-> "txt", s |-> s, e |-> None]
Content(s) == [t |-> "content", s |-> s, e |-> None]
Btn(s)     == [t |-> "btn", s |-> s, e |-> None]
Kid(e)     == [t |-> "kid", s |-> <<>>, e |-> e]

\* "connection", "mutual connection"
ConnectionText == <<99, 111, 110, 110, 101, 99, 116, 105, 111, 110>>
MutualConnectionText ==
    <<109, 117, 116, 117, 97, 108, 32>> \o ConnectionText
\* "Accept"
AcceptText == <<65, 99, 99, 101, 112, 116>>
\* "Jane Doe, Founder at Acme, San Francisco." and 59 more letters: 100 code units
JaneBase ==
    <<74, 97, 110, 101, 32, 68, 111, 101, 44, 32, 70, 111, 117, 110, 100, 101,
      114, 32, 97, 116, 32, 65, 99, 109, 101, 44, 32, 83, 97, 110, 32, 70, 114,
      97, 110, 99, 105, 115, 99, 111, 46>> \o [i \in 1..59 |-> 97 + (i % 26)]
\* " 3 mutual connections", " 5 mutual connections"
Mutual3Text == <<32, 51, 32>> \o MutualConnectionText \o <<115>>
Mutual5Text == <<32, 53, 32>> \o MutualConnectionText \o <<115>>
\* "Pending invite: "
PendingText ==
    <<80, 101, 110, 100, 105, 110, 103, 32, 105, 110, 118, 105, 116, 101, 58, 32>>
\* "Ravi Kumar, VC at Seed Fund, 2 mutual connections"
RaviText ==
    <<82, 97, 118, 105, 32, 75, 117, 109, 97, 114, 44, 32, 86, 67, 32, 97, 116,
      32, 83, 101, 101, 100, 32, 70, 117, 110, 100, 44, 32, 50, 32>>
      \o MutualConnectionText \o <<115>>
\* U+674E U+660E ", Investor, 3 mutual connections"
LiText ==
    <<26446, 26126, 44, 32, 73, 110, 118, 101, 115, 116, 111, 114, 44>>
      \o Mutual3Text
\* "Al", nine spaces, "Bo": 13 code units, 5 once white space is collapsed
SparseText == <<65, 108>> \o [i \in 1..9 |-> 32] \o <<66, 111>>
\* "Bo"
TinyText == <<66, 111>>

Elements ==
    [ jane   |-> [sels |-> {1}, img |-> "real",
                  items |-> <<Content(JaneBase \o Mutual3Text), Btn(AcceptText)>>],
      twin   |-> [sels |-> {1, 2}, img |-> "ghost",
                  items |-> <<Content(JaneBase \o Mutual5Text), Btn(AcceptText)>>],
      sparse |-> [sels |-> {1}, img |-> "none",
                  items |-> <<Content(SparseText)>>],
      echo   |-> [sels |-> {1, 2}, img |-> "none",
                  items |-> <<Content(SparseText)>>],
      li     |-> [sels |-> {1}, img |-> "real",
                  items |-> <<Content(LiText), Btn(AcceptText)>>],
      outer  |-> [sels |-> {1}, img |-> "none",
                  items |-> <<Txt(PendingText), Kid("lockup"), Btn(AcceptText)>>],
      lockup |-> [sels |-> {3}, img |-> "real",
                  items |-> <<Content(RaviText)>>],
      wrap   |-> [sels |-> {}, img |-> "none",
                  items |-> <<Kid("tiny")>>],
      tiny   |-> [sels |-> {3}, img |-> "none",
                  items |-> <<Txt(TinyText)>>] ]

ElementNames == DOMAIN Elements
ItemsOf(e) == Elements[e].items
KidsOf(e) == {ItemsOf(e)[i].e : i \in {j \in 1..Len(ItemsOf(e)) : ItemsOf(e)[j].t = "kid"}}
\* the nodes the host page can add to document.body
Roots == {e \in ElementNames : \A p \in ElementNames : e \notin KidsOf(p)}

\* where a badge can be appended: <<e, i>> is inside item i of element e (an
\* accept button's parent or a content region), <<e, 0>> the end of e itself
Slots ==
    {<<e, 0>> : e \in ElementNames} \cup
    {sl \in ElementNames \X (1..3) :
        /\ sl[2] <= Len(ItemsOf(sl[1]))
        /\ ItemsOf(sl[1])[sl[2]].t \in {"content", "btn"}}

\* createLoadingBadge, createScoreBadge, createErrorBadge: the badge's text
Indent8 == <<10>> \o [i \in 1..8 |-> 32]
Indent4 == <<10>> \o [i \in 1..4 |-> 32]
BadgeText(b) ==
    CASE b.kind = "loading" ->
            Indent8 \o Indent8
              \o <<83, 99, 111, 114, 105, 110, 103, 46, 46, 46>> \o Indent4
      [] b.kind = "score" ->
            Indent8 \o NumberToString(b.score) \o Indent8
              \o <<76, 101, 97, 100, 32, 83, 99, 111, 114, 101>> \o Indent4
      [] OTHER ->
            Indent8 \o <<33>> \o Indent8 \o <<69, 114, 114, 111, 114>> \o Indent4

RECURSIVE BadgesText(_, _)
BadgesText(bs, i) ==
    IF i > Len(bs) THEN <<>> ELSE BadgeText(bs[i]) \o BadgesText(bs, i + 1)

(***************************************************************************)
(* DOM queries.  bd is the badge list of every slot.                       *)
(***************************************************************************)
RECURSIVE ItemsTextContent(_, _, _)
\* Node.textContent
TextContent(bd, e) == ItemsTextContent(bd, e, 1) \o BadgesText(bd[<<e, 0>>], 1)
ItemsTextContent(bd, e, i) ==
    IF i > Len(ItemsOf(e)) THEN <<>>
    ELSE LET it == ItemsOf(e)[i]
         IN  (CASE it.t = "txt" -> it.s
                [] it.t = "kid" -> TextContent(bd, it.e)
                [] OTHER -> it.s \o BadgesText(bd[<<e, i>>], 1))
             \o ItemsTextContent(bd, e, i + 1)

RECURSIVE ItemsBadges(_, _, _)
\* card.querySelectorAll('.lead-scorer-badge'), in document order
BadgesIn(bd, e) == ItemsBadges(bd, e, 1) \o bd[<<e, 0>>]
ItemsBadges(bd, e, i) ==
    IF i > Len(ItemsOf(e)) THEN <<>>
    ELSE LET it == ItemsOf(e)[i]
         IN  (CASE it.t = "txt" -> <<>>
                [] it.t = "kid" -> BadgesIn(bd, it.e)
                [] OTHER -> bd[<<e, i>>])
             \o ItemsBadges(bd, e, i + 1)

\* card.querySelector(':scope > .lead-scorer-badge'): the card's own children only
HasBadgeOwnOnly(bd, e) == bd[<<e, 0>>] # <<>>

\* card.querySelector('.lead-scorer-badge') is not null
HasBadge(bd, e) == BadgesIn(bd, e) # <<>>

RECURSIVE ItemsFirst(_, _, _)
\* card.querySelector(sel): the slot of the first item of type t in e's subtree
FirstItem(e, t) == ItemsFirst(e, t, 1)
ItemsFirst(e, t, i) ==
    IF i > Len(ItemsOf(e)) THEN <<>>
    ELSE LET it == ItemsOf(e)[i]
             here == IF it.t = t THEN <<e, i>>
                     ELSE IF it.t = "kid" THEN FirstItem(it.e, t) ELSE <<>>
         IN  IF here # <<>> THEN here ELSE ItemsFirst(e, t, i + 1)

RECURSIVE Descendants(_)
\* node.querySelectorAll('*'), in document order (the node itself excluded)
Descendants(e) == 
    LET RECURSIVE walk(_)
        walk(i) == IF i > Len(ItemsOf(e)) THEN <<>>
                   ELSE (IF ItemsOf(e)[i].t = "kid"
                         THEN <<ItemsOf(e)[i].e>> \o Descendants(ItemsOf(e)[i].e)
                         ELSE <<>>) \o walk(i + 1)
    IN  walk(1)

\* element.matches(selector) for some selector of SELECTORS.invitationCard
MatchesCardSelector(e) == Elements[e].sels # {}

(***************************************************************************)
(* Values: what JSON.parse returns, and what the provider does with the    *)
(* POST.                                                                   *)
(***************************************************************************)
JUndefined == [type |-> "undefined", num |-> 0, str |-> ""]
JNull      == [type |-> "object", num |-> 0, str |-> "null"]
JNum(n)    == [type |-> "number", num |-> n, str |-> ""]
JStr(t)    == [type |-> "string", num |-> 0, str |-> t]

\* a JavaScript value by its typeof; what JSON.parse returns: an object with its
\* two fields, or another kind of value, of which null has no properties and a
\* string, number, boolean or array has these two undefined
JObject(ts, rs) == [kind |-> "object", totalScore |-> ts, reasoning |-> rs]
JOther(k)       == [kind |-> k, totalScore |-> JUndefined, reasoning |-> JUndefined]

Reasoning == "Founder keyword +10, SF +5, industry +5, photo +1"
Scores == {-1, 21}

WellFormedValues == {JObject(JNum(n), JStr(Reasoning)) : n \in Scores}
\* a number and a string, the string being empty: both typeof checks pass
EmptyReasoningValues == {JObject(JNum(21), JStr(""))}
MalformedValues ==
    { JObject(JStr("21"), JStr(Reasoning)),
      JObject(JNull, JStr(Reasoning)),
      JObject(JUndefined, JStr(Reasoning)),
      JObject(JNum(21), JUndefined),
      JObject(JNum(21), JNum(5)),
      JOther("array"), JOther("string"), JOther("number"), JOther("boolean"),
      JOther("null") }

\* what the provider does with the POST
Outcome(kind, status, value) == [kind |-> kind, status |-> status, value |-> value]
Outcomes ==
    { Outcome("networkError", 0, JOther("null")),
      Outcome("http", 401, JOther("null")),
      Outcome("http", 500, JOther("null")),
      Outcome("notJson", 200, JOther("null")),
      Outcome("otherShape", 200, JOther("null")),
      Outcome("unparseable", 200, JOther("null")) }
    \cup {Outcome("decoded", 200, v) :
                v \in WellFormedValues \cup EmptyReasoningValues \cup MalformedValues}
\* no POST was answered
NoOutcome == Outcome("none", 0, JOther("null"))


(***************************************************************************)
(* Messages: a text the code passes on unread.  tpl is the string or the   *)
(* template literal, status and body what the template interpolates.       *)
(***************************************************************************)
Msg(t) == [tpl |-> t, status |-> 0, body |-> ""]
Undefined == Msg("<undefined>")

(***************************************************************************)
(* content.js: the card watcher.  Its functions act on a world             *)
(* w = [processed, badges, procs]: the processedCards set, the badges of   *)
(* every slot, and one record per call of processInvitationCard.           *)
(***************************************************************************)
\* getCardId, on the card's textContent
IdOfHash(hash) ==
    IF BtoaThrows(hash) THEN InvalidCharacter
    ELSE Substring0(StripNonAlnum(Btoa(hash)), IdLength)

\* getCardId without its trim(): the prefix is cut from the untrimmed text
CardIdOfTextUntrimmed(text) == IdOfHash(Substring0(text, IdPrefixLength))

CardIdOfText(text) == IdOfHash(Substring0(Trim(text), IdPrefixLength))

getCardId(bd, card) == CardIdOfText(TextContent(bd, card))

\* isValidInvitationCard, on what it reads of the card
ValidCard(text, hasBadge, hasAcceptButton, hasCardContent) ==
    /\ Len(text) >= ValidMinLength
    /\ ~hasBadge
    /\ \/ hasAcceptButton
       \/ hasCardContent
       \/ Includes(text, MutualConnectionText)
       \/ Includes(text, ConnectionText)

isValidInvitationCard(bd, card) ==
    ValidCard(Trim(TextContent(bd, card)), HasBadge(bd, card),
              FirstItem(card, "btn") # <<>>, FirstItem(card, "content") # <<>>)

isInvitationCard(bd, e) == MatchesCardSelector(e) /\ isValidInvitationCard(bd, e)

\* isCardProcessed without processedCards.has(cardId)
ProcessedAnswerBadgeOnly(cardId, processed, hasBadge) ==
    IF cardId = InvalidCharacter THEN "throws"
    ELSE IF hasBadge THEN "yes"
    ELSE "no"

\* isCardProcessed: "throws" when getCardId throws, else "yes" or "no"
ProcessedAnswer(cardId, processed, hasBadge) ==
    IF cardId = InvalidCharacter THEN "throws"
    ELSE IF cardId \in processed \/ hasBadge THEN "yes"
    ELSE "no"

\* isCardProcessed asking a set that is always empty
isCardProcessedByBadge(w, card) ==
    ProcessedAnswer(getCardId(w.badges, card), {}, HasBadge(w.badges, card))

isCardProcessed(w, card) ==
    ProcessedAnswer(getCardId(w.badges, card), w.processed, HasBadge(w.badges, card))

\* card.querySelector(SELECTORS.profileImage): the first image of the subtree
FirstImage(imgs) ==
    IF \A i \in 1..Len(imgs) : imgs[i] = "none" THEN "none"
    ELSE imgs[CHOOSE i \in 1..Len(imgs) :
                /\ imgs[i] # "none"
                /\ \A j \in 1..(i - 1) : imgs[j] = "none"]

ImagesOf(es) == [i \in 1..Len(es) |-> Elements[es[i]].img]

ProfileImage(card) == FirstImage(ImagesOf(<<card>> \o Descendants(card)))

\* profileImg && !src.includes('ghost-person') && ...
HasProfilePic(profileImg) ==
    CASE profileImg = "none" -> "null"
      [] profileImg = "real" -> "true"
      [] OTHER -> "false"

\* textContent.trim().replace(/\s+/g, ' ').replace(/\n+/g, '\n').trim()
CleanText(textContent) ==
    Trim(CollapseNewlines(CollapseSpaces(Trim(textContent))))

extractProfileData(bd, card) ==
    [text |-> CleanText(TextContent(bd, card)),
     hasProfilePic |-> HasProfilePic(ProfileImage(card))]

\* getScoreClass with strict comparisons
getScoreClassStrict(score) ==
    IF score > 20 THEN "score-excellent"
    ELSE IF score > 10 THEN "score-good"
    ELSE IF score > 5 THEN "score-fair"
    ELSE IF score > 0 THEN "score-poor"
    ELSE "score-negative"

getScoreClass(score) ==
    IF score >= 20 THEN "score-excellent"
    ELSE IF score >= 10 THEN "score-good"
    ELSE IF score >= 5 THEN "score-fair"
    ELSE IF score >= 0 THEN "score-poor"
    ELSE "score-negative"

\* createScoreBadge without badge.title = reasoning
createScoreBadgeUntitled(r, score, reasoning) ==
    [kind |-> "score", req |-> r, tier |-> getScoreClass(score),
     title |-> Undefined, score |-> score]

createLoadingBadge(r) ==
    [kind |-> "loading", req |-> r, tier |-> "", title |-> Undefined, score |-> 0]
createScoreBadge(r, score, reasoning) ==
    [kind |-> "score", req |-> r, tier |-> getScoreClass(score),
     title |-> reasoning, score |-> score]
createErrorBadge(r, error) ==
    [kind |-> "error", req |-> r, tier |-> "", title |-> error, score |-> 0]

\* insertScoreBadge: the accept button's parent, else the content area, else
\* the card
PickLocation(acceptParent, content, card) ==
    IF acceptParent # <<>> THEN acceptParent
    ELSE IF content # <<>> THEN content
    ELSE <<card, 0>>

InsertLocation(card) ==
    PickLocation(FirstItem(card, "btn"), FirstItem(card, "content"), card)

insertScoreBadge(bd, card, badge) ==
    [bd EXCEPT ![InsertLocation(card)] = Append(@, badge)]

\* Element.remove() of one badge element
RemoveBadge(bd, badge) ==
    [sl \in Slots |-> SelectSeq(bd[sl], LAMBDA b : b # badge)]

\* processInvitationCard without processedCards.add(cardId)
StartTryUnmarked(w, card, epoch, cardId, profileData, r) ==
    IF Len(profileData.text) < SnapshotMinLength
    THEN [w EXCEPT !.procs = Append(@, [card |-> card, id |-> cardId,
                                        data |-> profileData, st |-> "skipped",
                                        responses |-> <<>>, posts |-> 0,
                                        outcome |-> NoOutcome, epoch |-> epoch,
            badged |-> BadgesIn(w.badges, card) # <<>>])]
    ELSE [w EXCEPT !.badges = insertScoreBadge(@, card, createLoadingBadge(r)),
                   !.procs = Append(@, [card |-> card, id |-> cardId,
                                        data |-> profileData, st |-> "sent",
                                        responses |-> <<>>, posts |-> 0,
                                        outcome |-> NoOutcome, epoch |-> epoch,
            badged |-> BadgesIn(w.badges, card) # <<>>])]

\* processInvitationCard with the loading badge inserted before the length check
StartTryBadgeFirst(w, card, epoch, cardId, profileData, r) ==
    [w EXCEPT !.processed = @ \cup {cardId},
              !.badges = insertScoreBadge(@, card, createLoadingBadge(r)),
              !.procs = Append(@, [card |-> card, id |-> cardId,
                                   data |-> profileData,
                                   st |-> IF Len(profileData.text) < SnapshotMinLength
                                          THEN "skipped" ELSE "sent",
                                   responses |-> <<>>, posts |-> 0,
                                   outcome |-> NoOutcome, epoch |-> epoch,
            badged |-> BadgesIn(w.badges, card) # <<>>])]

\* processInvitationCard from its try to its await; badged records whether
\* the card bore a badge when it was called
StartTry(w, card, epoch, cardId, profileData, r) ==
    IF Len(profileData.text) < SnapshotMinLength
    THEN [w EXCEPT !.processed = @ \cup {cardId},
                   !.procs = Append(@, [card |-> card, id |-> cardId,
                                        data |-> profileData, st |-> "skipped",
                                        responses |-> <<>>, posts |-> 0,
                                        outcome |-> NoOutcome, epoch |-> epoch,
            badged |-> BadgesIn(w.badges, card) # <<>>])]
    ELSE [w EXCEPT !.processed = @ \cup {cardId},
                   !.badges = insertScoreBadge(@, card, createLoadingBadge(r)),
                   !.procs = Append(@, [card |-> card, id |-> cardId,
                                        data |-> profileData, st |-> "sent",
                                        responses |-> <<>>, posts |-> 0,
                                        outcome |-> NoOutcome, epoch |-> epoch,
            badged |-> BadgesIn(w.badges, card) # <<>>])]

\* getCardId is called before the try: when it throws the promise is rejected
\* and nothing else has run
StartWithId(w, card, epoch, cardId) ==
    IF cardId = InvalidCharacter THEN w
    ELSE StartTry(w, card, epoch, cardId, extractProfileData(w.badges, card),
                  Len(w.procs) + 1)

\* processInvitationCard up to its await: the part that runs inside the
\* caller's loop
ProcessStart(w, card, epoch) ==
    StartWithId(w, card, epoch, getCardId(w.badges, card))

\* if (!isCardProcessed(card)) processInvitationCard(card): the world after
\* it, and whether isCardProcessed threw
IfUnprocessed(w, card, epoch, answer) ==
    CASE answer = "throws" -> [w |-> w, thrown |-> TRUE]
      [] answer = "yes" -> [w |-> w, thrown |-> FALSE]
      [] OTHER -> [w |-> ProcessStart(w, card, epoch), thrown |-> FALSE]

ProcessIfUnprocessed(w, card, epoch) ==
    IfUnprocessed(w, card, epoch, isCardProcessed(w, card))

\* cards.forEach(card => { if (!isCardProcessed(card)) processInvitationCard(card) })
\* an exception of isCardProcessed ends the loop and the handler around it
RECURSIVE ProcessEach(_, _, _, _)
ContinueEach(res, cards, i, epoch) ==
    IF res.thrown THEN res ELSE ProcessEach(res.w, cards, i + 1, epoch)

ProcessEach(w, cards, i, epoch) ==
    IF i > Len(cards) THEN [w |-> w, thrown |-> FALSE]
    ELSE ContinueEach(ProcessIfUnprocessed(w, cards[i], epoch), cards, i, epoch)

\* document.querySelectorAll('*') over the attached nodes, in document order
RECURSIVE DocumentOrder(_, _)
DocumentOrder(pg, i) ==
    IF i > Len(pg) THEN <<>>
    ELSE <<pg[i]>> \o Descendants(pg[i]) \o DocumentOrder(pg, i + 1)

InSeq(x, sq) == \E i \in 1..Len(sq) : sq[i] = x

\* findInvitationCards: selector by selector, each element once, valid ones only
RECURSIVE FindBySelector(_, _, _, _, _)
FindBySelector(bd, all, k, i, cards) ==
    IF k > 3 THEN cards
    ELSE IF i > Len(all) THEN FindBySelector(bd, all, k + 1, 1, cards)
    ELSE FindBySelector(bd, all, k, i + 1,
            IF /\ k \in Elements[all[i]].sels
               /\ ~InSeq(all[i], cards)
               /\ isValidInvitationCard(bd, all[i])
            THEN Append(cards, all[i]) ELSE cards)

findInvitationCards(bd, pg) == FindBySelector(bd, DocumentOrder(pg, 1), 1, 1, <<>>)

processExistingCards(w, pg, epoch) ==
    ProcessEach(w, findInvitationCards(w.badges, pg), 1, epoch).w

\* node.querySelectorAll(SELECTORS.invitationCard)
CardsInside(node) == SelectSeq(Descendants(node), MatchesCardSelector)

\* the observer's callback on one added node: the node itself when it is an
\* invitation card, then the cards inside it
NodeItself(w, node, epoch) ==
    IF isInvitationCard(w.badges, node)
    THEN ProcessIfUnprocessed(w, node, epoch)
    ELSE [w |-> w, thrown |-> FALSE]

NodeInside(res, node, epoch) ==
    IF res.thrown THEN res ELSE ProcessEach(res.w, CardsInside(node), 1, epoch)

\* the MutationObserver callback, over the added nodes of the batch
RECURSIVE ObserverCallback(_, _, _, _)
ContinueCallback(res, nodes, i, epoch) ==
    IF res.thrown THEN res.w ELSE ObserverCallback(res.w, nodes, i + 1, epoch)

ObserverCallback(w, nodes, i, epoch) ==
    IF i > Len(nodes) THEN w
    ELSE ContinueCallback(NodeInside(NodeItself(w, nodes[i], epoch), nodes[i], epoch),
                          nodes, i, epoch)

(***************************************************************************)
(* background.js: the provider adapter.                                    *)
(***************************************************************************)
\* API_CONFIGS[provider]: an own property, one inherited from Object.prototype,
\* or undefined
OwnProviders == {"openai", "gemini", "anthropic"}
InheritedKeys == {"constructor", "toString", "hasOwnProperty", "valueOf"}
ApiConfig(provider) ==
    IF provider \in OwnProviders THEN "config"
    ELSE IF provider \in InheritedKeys THEN "inherited"
    ELSE "undefined"

Thrown(name, message) == [ok |-> FALSE, name |-> name, message |-> message,
                          result |-> JOther("null"), posts |-> 0]
Returned(result)      == [ok |-> TRUE, name |-> "", message |-> Undefined,
                          result |-> result, posts |-> 1]

\* callLLMAPI without its validation of the parsed result
CallTryUnvalidated(provider, outcome) ==
    IF ApiConfig(provider) = "inherited"
    THEN Thrown("TypeError", Msg("config.headers is not a function"))
    ELSE CASE outcome.kind = "networkError" ->
                [Thrown("TypeError", Msg("Failed to fetch")) EXCEPT !.posts = 1]
           [] outcome.kind = "http" ->
                [Thrown("Error",
                        [tpl |-> "API request failed (${response.status}): ${errorText}",
                         status |-> outcome.status, body |-> "errorText"])
                 EXCEPT !.posts = 1]
           [] outcome.kind \in {"notJson", "unparseable"} ->
                [Thrown("SyntaxError", Msg("Unexpected token in JSON")) EXCEPT !.posts = 1]
           [] outcome.kind = "otherShape" ->
                [Thrown("TypeError", Msg("Cannot read properties of undefined"))
                 EXCEPT !.posts = 1]
           [] OTHER -> Returned(outcome.value)

\* callLLMAPI with an error message that leaves the status out
CallTryStatusDropped(provider, outcome) ==
    IF ApiConfig(provider) = "inherited"
    THEN Thrown("TypeError", Msg("config.headers is not a function"))
    ELSE CASE outcome.kind = "networkError" ->
                [Thrown("TypeError", Msg("Failed to fetch")) EXCEPT !.posts = 1]
           [] outcome.kind = "http" ->
                [Thrown("Error", Msg("API request failed")) EXCEPT !.posts = 1]
           [] outcome.kind \in {"notJson", "unparseable"} ->
                [Thrown("SyntaxError", Msg("Unexpected token in JSON")) EXCEPT !.posts = 1]
           [] outcome.kind = "otherShape" ->
                [Thrown("TypeError", Msg("Cannot read properties of undefined"))
                 EXCEPT !.posts = 1]
           [] OTHER ->
                IF outcome.value.kind = "null"
                THEN [Thrown("TypeError", Msg("Cannot read properties of null"))
                      EXCEPT !.posts = 1]
                ELSE IF \/ outcome.value.totalScore.type # "number"
                        \/ outcome.value.reasoning.type # "string"
                THEN [Thrown("Error", Msg("Invalid response format from LLM"))
                      EXCEPT !.posts = 1]
                ELSE Returned(outcome.value)

\* callLLMAPI sending the POST a second time after a 5xx status
CallTryRetrying(provider, outcome) ==
    IF ApiConfig(provider) = "inherited"
    THEN Thrown("TypeError", Msg("config.headers is not a function"))
    ELSE CASE outcome.kind = "networkError" ->
                [Thrown("TypeError", Msg("Failed to fetch")) EXCEPT !.posts = 1]
           [] outcome.kind = "http" ->
                [Thrown("Error",
                        [tpl |-> "API request failed (${response.status}): ${errorText}",
                         status |-> outcome.status, body |-> "errorText"])
                 EXCEPT !.posts = IF outcome.status >= 500 THEN 2 ELSE 1]
           [] outcome.kind \in {"notJson", "unparseable"} ->
                [Thrown("SyntaxError", Msg("Unexpected token in JSON")) EXCEPT !.posts = 1]
           [] outcome.kind = "otherShape" ->
                [Thrown("TypeError", Msg("Cannot read properties of undefined"))
                 EXCEPT !.posts = 1]
           [] OTHER ->
                IF outcome.value.kind = "null"
                THEN [Thrown("TypeError", Msg("Cannot read properties of null"))
                      EXCEPT !.posts = 1]
                ELSE IF \/ outcome.value.totalScore.type # "number"
                        \/ outcome.value.reasoning.type # "string"
                THEN [Thrown("Error", Msg("Invalid response format from LLM"))
                      EXCEPT !.posts = 1]
                ELSE Returned(outcome.value)

\* the try block of callLLMAPI, once config is known to be truthy
CallTry(provider, outcome) ==
    IF ApiConfig(provider) = "inherited"
    THEN Thrown("TypeError", Msg("config.headers is not a function"))
    ELSE CASE outcome.kind = "networkError" ->
                [Thrown("TypeError", Msg("Failed to fetch")) EXCEPT !.posts = 1]
           [] outcome.kind = "http" ->
                [Thrown("Error",
                        [tpl |-> "API request failed (${response.status}): ${errorText}",
                         status |-> outcome.status, body |-> "errorText"])
                 EXCEPT !.posts = 1]
           [] outcome.kind = "notJson" ->
                [Thrown("SyntaxError", Msg("Unexpected token in JSON")) EXCEPT !.posts = 1]
           [] outcome.kind = "otherShape" ->
                [Thrown("TypeError", Msg("Cannot read properties of undefined"))
                 EXCEPT !.posts = 1]
           [] outcome.kind = "unparseable" ->
                [Thrown("SyntaxError", Msg("Unexpected token in JSON")) EXCEPT !.posts = 1]
           [] OTHER ->
                LET result == outcome.value
                IN  IF result.kind = "null"
                    THEN [Thrown("TypeError", Msg("Cannot read properties of null"))
                          EXCEPT !.posts = 1]
                    ELSE IF \/ result.totalScore.type # "number"
                            \/ result.reasoning.type # "string"
                    THEN [Thrown("Error", Msg("Invalid response format from LLM"))
                          EXCEPT !.posts = 1]
                    ELSE Returned(result)

callLLMAPI(provider, outcome) ==
    IF ApiConfig(provider) = "undefined"
    THEN Thrown("Error", [tpl |-> "Unsupported provider: ${provider}",
                          status |-> 0, body |-> provider])
    ELSE LET t == CallTry(provider, outcome)
         IN  IF ~t.ok /\ t.name = "SyntaxError"
             THEN [Thrown("Error", Msg("LLM returned invalid JSON response"))
                   EXCEPT !.posts = t.posts]
             ELSE t

Success(score, reasoning) ==
    [success |-> TRUE, score |-> score, reasoning |-> reasoning, error |-> Undefined]
Failure(error) ==
    [success |-> FALSE, score |-> 0, reasoning |-> Undefined, error |-> error]

\* error.message || 'Failed to score profile'
MessageOr(message, default) == IF message.tpl = "" THEN Msg(default) ELSE message

\* handleScoreProfile with a catch that only logs
handleScoreProfileSilent(st, outcome) ==
    IF st.modelProvider = "" \/ st.modelSelection = "" \/ st.apiKey = ""
    THEN [responses |-> <<Failure(Msg(
            "Extension not configured. Please set up your API key in the popup."))>>,
          posts |-> 0]
    ELSE LET c == callLLMAPI(st.modelProvider, outcome)
         IN  IF c.ok
             THEN [responses |->
                     <<Success(c.result.totalScore.num, Msg(c.result.reasoning.str))>>,
                   posts |-> c.posts]
             ELSE [responses |-> <<>>, posts |-> c.posts]

\* handleScoreProfile checking only settings.apiKey
handleScoreProfileKeyOnly(st, outcome) ==
    IF st.apiKey = ""
    THEN [responses |-> <<Failure(Msg(
            "Extension not configured. Please set up your API key in the popup."))>>,
          posts |-> 0]
    ELSE LET c == callLLMAPI(st.modelProvider, outcome)
         IN  IF c.ok
             THEN [responses |->
                     <<Success(c.result.totalScore.num, Msg(c.result.reasoning.str))>>,
                   posts |-> c.posts]
             ELSE [responses |->
                     <<Failure(MessageOr(c.message, "Failed to score profile"))>>,
                   posts |-> c.posts]

\* handleScoreProfile: the sendResponse calls it makes, and the POSTs it issued
handleScoreProfile(st, outcome) ==
    IF st.modelProvider = "" \/ st.modelSelection = "" \/ st.apiKey = ""
    THEN [responses |-> <<Failure(Msg(
            "Extension not configured. Please set up your API key in the popup."))>>,
          posts |-> 0]
    ELSE LET c == callLLMAPI(st.modelProvider, outcome)
         IN  IF c.ok
             THEN [responses |->
                     <<Success(c.result.totalScore.num, Msg(c.result.reasoning.str))>>,
                   posts |-> c.posts]
             ELSE [responses |->
                     <<Failure(MessageOr(c.message, "Failed to score profile"))>>,
                   posts |-> c.posts]

(***************************************************************************)
(* The state.                                                              *)
(***************************************************************************)
VARIABLES
    urlOk,          \* window.location.href is the invitation manager's
    initialized,    \* initialize() has run
    observing,      \* the MutationObserver is set up
    site,           \* the root nodes the host page renders in this lifetime
    page,           \* the root nodes attached to document.body, in order
    processedCards, \* the processedCards set
    badges,         \* the badge elements of every slot, in order
    procs,          \* one record per call of processInvitationCard
    resets,         \* how many extensionReloaded messages were handled
    settings,       \* chrome.storage.sync
    probe           \* two texts and the identities getCardId gave them

vars == <<urlOk, initialized, observing, site, page, processedCards, badges, procs,
          resets, settings, probe>>

World == [processed |-> processedCards, badges |-> badges, procs |-> procs]

\* the watcher's state after a handler
Becomes(w) ==
    /\ processedCards' = w.processed
    /\ badges' = w.badges
    /\ procs' = w.procs

Setting(p, m, k) == [modelProvider |-> p, modelSelection |-> m, apiKey |-> k]
SettingsChoices ==
    { Setting("openai", "gpt-4o", "sk-key"),
      Setting("mistral", "mistral-large", "sk-key"),
      Setting("constructor", "gpt-4o", "sk-key"),
      Setting("openai", "gpt-4o", ""),
      Setting("openai", "", "sk-key"),
      Setting("", "gpt-4o", "sk-key"),
      Setting("", "", "") }

NoProbe == [a |-> <<>>, b |-> <<>>, ids |-> <<>>]

\* what the host page renders in one lifetime: the root nodes, in the order
\* it appends them
Sites ==
    { <<"jane", "twin">>,
      <<"li", "jane">>,
      <<"jane", "li">>,
      <<"outer">>,
      <<"wrap", "sparse">>,
      <<"sparse", "wrap">>,
      <<"sparse", "echo">> }

Init ==
    /\ urlOk \in BOOLEAN
    /\ initialized = FALSE
    /\ observing = FALSE
    /\ site \in Sites
    /\ page \in {SubSeq(site, 1, n) : n \in 0..Len(site)}
    /\ processedCards = {}
    /\ badges = [sl \in Slots |-> <<>>]
    /\ procs = <<>>
    /\ resets = 0
    /\ settings \in SettingsChoices
    /\ probe = NoProbe

\* initialize(), at DOMContentLoaded
Initialize ==
    /\ ~initialized
    /\ initialized' = TRUE
    /\ IF urlOk
       THEN /\ Becomes(processExistingCards(World, page, resets))
            /\ observing' = TRUE
       ELSE UNCHANGED <<processedCards, badges, procs, observing>>
    /\ UNCHANGED <<urlOk, site, page, resets, settings, probe>>

\* the host page appends nodes to document.body; the observer, if set up,
\* is called back with the batch
HostAddsNodes ==
    /\ initialized
    /\ \E n \in 1..MaxBatch :
        /\ Len(page) + n <= Len(site)
        /\ page' = SubSeq(site, 1, Len(page) + n)
        /\ IF observing
           THEN Becomes(ObserverCallback(
                    World, SubSeq(site, Len(page) + 1, Len(page) + n), 1, resets))
           ELSE UNCHANGED <<processedCards, badges, procs>>
    /\ UNCHANGED <<urlOk, initialized, observing, site, resets, settings, probe>>

\* chrome.runtime.onMessage listener of content.js, on extensionReloaded
ExtensionReloaded ==
    /\ resets < MaxResets
    /\ resets' = resets + 1
    /\ Becomes(processExistingCards([World EXCEPT !.processed = {}], page, resets + 1))
    /\ UNCHANGED <<urlOk, initialized, observing, site, page, settings, probe>>

\* chrome.runtime.onMessage listener of background.js, on scoreProfile
ScoreProfile(r) ==
    /\ procs[r].st = "sent"
    /\ \E outcome \in Outcomes :
        LET h == handleScoreProfile(settings, outcome)
        IN  procs' = [procs EXCEPT ![r].responses = h.responses,
                                   ![r].posts = h.posts,
                                   ![r].outcome = IF h.posts = 0 THEN NoOutcome
                                                  ELSE outcome,
                                   ![r].st = IF h.responses = <<>> THEN "unanswered"
                                             ELSE "replied"]
    /\ UNCHANGED <<urlOk, initialized, observing, site, page, processedCards, badges,
                   resets, settings, probe>>

\* processInvitationCard after its await, the reply being the first response
Resume(r) ==
    /\ procs[r].st = "replied"
    /\ LET response == procs[r].responses[1]
           card == procs[r].card
           bd1 == RemoveBadge(badges, createLoadingBadge(r))
       IN  IF response.success
           THEN /\ badges' = insertScoreBadge(bd1, card,
                                createScoreBadge(r, response.score, response.reasoning))
                /\ procs' = [procs EXCEPT ![r].st = "scored"]
           ELSE /\ badges' = insertScoreBadge(bd1, card,
                                createErrorBadge(r, response.error))
                /\ procs' = [procs EXCEPT ![r].st = "errored"]
    /\ UNCHANGED <<urlOk, initialized, observing, site, page, processedCards, resets,
                   settings, probe>>

\* processInvitationCard's catch: sendMessage rejected (no receiving end, the
\* channel closed before a response)
Rejected(r) ==
    /\ procs[r].st = "sent"
    /\ LET card == procs[r].card
           found == BadgesIn(badges, card)
           bd1 == IF found # <<>> THEN RemoveBadge(badges, found[1]) ELSE badges
       IN  badges' = insertScoreBadge(bd1, card,
                        createErrorBadge(r, Msg("Processing failed")))
    /\ procs' = [procs EXCEPT ![r].st = "errored"]
    /\ UNCHANGED <<urlOk, initialized, observing, site, page, processedCards, resets,
                   settings, probe>>

Next ==
    \/ Initialize
    \/ HostAddsNodes
    \/ ExtensionReloaded
    \/ \E r \in 1..Len(procs) : ScoreProfile(r)
    \/ \E r \in 1..Len(procs) : Resume(r)
    \/ \E r \in 1..Len(procs) : Rejected(r)

Spec == Init /\ [][Next]_vars

(***************************************************************************)
(* getScoreClass on its own: a request for the card "jane" has been        *)
(* answered with a score, and processInvitationCard resumes.               *)
(***************************************************************************)
\* the scores range over -MaxScore..MaxScore
MaxScore == 30

Answered(w, score) ==
    [w EXCEPT !.procs[1].st = "replied",
              !.procs[1].posts = 1,
              !.procs[1].outcome =
                    Outcome("decoded", 200, JObject(JNum(score), JStr(Reasoning))),
              !.procs[1].responses = <<Success(score, Msg(Reasoning))>>]

EmptyWorld == [processed |-> {}, badges |-> [sl \in Slots |-> <<>>], procs |-> <<>>]

TierInit ==
    /\ urlOk = TRUE
    /\ initialized = TRUE
    /\ observing = TRUE
    /\ site = <<"jane">>
    /\ page = <<"jane">>
    /\ resets = 0
    /\ settings = Setting("openai", "gpt-4o", "sk-key")
    /\ probe = NoProbe
    /\ \E score \in (0 - MaxScore)..MaxScore :
          LET w == Answered(processExistingCards(EmptyWorld, <<"jane">>, 0), score)
          IN  /\ processedCards = w.processed
              /\ badges = w.badges
              /\ procs = w.procs

TierNext == Resume(1)

SpecTier == TierInit /\ [][TierNext]_vars

(***************************************************************************)
(* getCardId on its own: two texts are drawn, and the identity of each is  *)
(* computed.                                                               *)
(***************************************************************************)
\* 99 times U+00FF, then "J" or "K"
Y99 == [i \in 1..99 |-> 255]
\* "Jane  Doe, ...": JaneBase with its first space doubled
JaneWide == SubSeq(JaneBase, 1, 4) \o <<32, 32>> \o SubSeq(JaneBase, 6, Len(JaneBase))

TextHeads ==
    { JaneBase,
      JaneWide,
      <<32, 10>> \o JaneBase,
      Y99 \o <<74>>,
      Y99 \o <<75>>,
      LiText }
TextTails == { <<>>, Mutual3Text, Mutual5Text \o <<10, 32>> }
TextPool == { h \o t : h \in TextHeads, t \in TextTails }

IdentifyInit ==
    /\ urlOk = TRUE
    /\ initialized = FALSE
    /\ observing = FALSE
    /\ site = <<>>
    /\ page = <<>>
    /\ processedCards = {}
    /\ badges = [sl \in Slots |-> <<>>]
    /\ procs = <<>>
    /\ resets = 0
    /\ settings = Setting("", "", "")
    /\ probe \in [a : TextPool, b : TextPool, ids : {<<>>}]

\* getCardId(card) on a card of each text
Identify ==
    /\ probe.ids = <<>>
    /\ probe' = [probe EXCEPT !.ids = <<CardIdOfText(probe.a), CardIdOfText(probe.b)>>]
    /\ UNCHANGED <<urlOk, initialized, observing, site, page, processedCards, badges,
                   procs, resets, settings>>

IdentifyNext == Identify

SpecIdentify == IdentifyInit /\ [][IdentifyNext]_vars
(***************************************************************************)
(* Properties.                                                             *)
(***************************************************************************)
Requests == 1..Len(procs)

\* every badge element of the document
AllBadges == UNION {{badges[sl][i] : i \in 1..Len(badges[sl])} : sl \in Slots}

\* the elements attached to the document
Attached == {e \in ElementNames : InSeq(e, DocumentOrder(page, 1))}

\* a scoreProfile message was sent for the request
WasSent(r) == procs[r].st # "skipped"

\* C1: between two extensionReloaded resets, whatever the order of the initial
\* scan, the observer's callbacks and the pending replies, no two scoreProfile
\* requests carry the same card identity.
AtMostOncePerLifetime ==
    \A r1, r2 \in Requests :
        (/\ r1 # r2
         /\ procs[r1].epoch = procs[r2].epoch
         /\ WasSent(r1)
         /\ WasSent(r2)) => procs[r1].id # procs[r2].id

\* a request is pending for one card while another attached card, which has
\* the same identity and no badge, has been scanned and not submitted
SecondCardNotSubmitted ==
    \E r \in Requests : \E e \in Attached :
        /\ procs[r].st = "sent"
        /\ procs[r].epoch = resets
        /\ e # procs[r].card
        /\ isInvitationCard(badges, e)
        /\ getCardId(badges, e) = procs[r].id
        /\ observing

\* C2: the step that handles extensionReloaded submits again every attached
\* card that was scored before it.
ReloadResubmitsScored ==
    [][resets' = resets + 1 =>
        \A r \in Requests :
            (procs[r].st = "scored" /\ procs[r].card \in Attached) =>
                \E q \in (Len(procs) + 1)..Len(procs') :
                    /\ procs'[q].card = procs[r].card
                    /\ procs'[q].st = "sent"]_vars

\* C3: every element matching the card selector has at most one badge element
\* inside it.
OneBadgePerCard ==
    \A e \in ElementNames :
        MatchesCardSelector(e) => Len(BadgesIn(badges, e)) <= 1

\* C4: a card whose snapshot text is shorter than 10 characters is skipped: no
\* scoreProfile message is sent for it, no POST is issued, and no badge is
\* ever rendered for it.
ShortCardUntouched ==
    \A r \in Requests :
        Len(procs[r].data.text) < 10 =>
            /\ procs[r].st = "skipped"
            /\ procs[r].responses = <<>>
            /\ procs[r].posts = 0
            /\ \A b \in AllBadges : b.req # r

\* a short card has been through processInvitationCard and was skipped
ShortCardSkipped ==
    \E r \in Requests :
        /\ Len(procs[r].data.text) < 10
        /\ procs[r].st = "skipped"
        /\ procs[r].id \in processedCards

\* the decoded payload is not {totalScore: number, reasoning: string}
ViolatesShape(v) ==
    \/ v.kind # "object"
    \/ v.totalScore.type # "number"
    \/ v.reasoning.type # "string"

Malformed(r) ==
    procs[r].outcome.kind = "decoded" /\ ViolatesShape(procs[r].outcome.value)

\* the card of request r bears an error badge of that request
ErrorBadgeOn(bd, r) ==
    \E i \in 1..Len(BadgesIn(bd, procs[r].card)) :
        /\ BadgesIn(bd, procs[r].card)[i].kind = "error"
        /\ BadgesIn(bd, procs[r].card)[i].req = r

\* C5: when the decoded payload violates the shape, the reply is a failure, no
\* score badge is ever rendered for the request, and the step that resumes
\* processInvitationCard leaves an error badge of the request on the card.
MalformedNeverScored ==
    /\ [](\A r \in Requests :
            Malformed(r) =>
                /\ Len(procs[r].responses) = 1
                /\ ~procs[r].responses[1].success
                /\ procs[r].st # "scored"
                /\ \A b \in AllBadges : b.req = r => b.kind # "score")
    /\ [][\A r \in Requests :
            (Malformed(r) /\ procs[r].st = "replied" /\ procs'[r].st # "replied")
                => procs'[r].st = "errored" /\ ErrorBadgeOn(badges', r)]_vars

\* a request answered with a malformed payload has ended with its error badge
MalformedEndedInError ==
    \E r \in Requests :
        /\ Malformed(r)
        /\ procs[r].st = "errored"
        /\ ErrorBadgeOn(badges, r)
        /\ procs[r].responses[1].error = Msg("Invalid response format from LLM")

HttpFailed(r) == procs[r].outcome.kind = "http"

\* C6: when the provider answers with a non-success HTTP status, the reply is
\* a failure whose error carries the status, every badge rendered for the
\* request is the loading badge or an error badge whose message carries the
\* status, and until an extensionReloaded reset the card's identity stays in
\* processedCards and the card is not submitted again.
HttpFailureNoRetry ==
    /\ [](\A r \in Requests :
            HttpFailed(r) =>
                /\ Len(procs[r].responses) = 1
                /\ ~procs[r].responses[1].success
                /\ procs[r].responses[1].error.status = procs[r].outcome.status
                /\ \A b \in AllBadges :
                      b.req = r =>
                        \/ b.kind = "loading"
                        \/ b.kind = "error" /\ b.title.status = procs[r].outcome.status
                /\ procs[r].epoch = resets => procs[r].id \in processedCards
                /\ \A q \in Requests :
                      (q # r /\ procs[q].epoch = procs[r].epoch)
                        => procs[q].card # procs[r].card /\ procs[q].id # procs[r].id)
    /\ [][\A r \in Requests :
            (HttpFailed(r) /\ procs[r].st = "replied" /\ procs'[r].st # "replied")
                => procs'[r].st = "errored" /\ ErrorBadgeOn(badges', r)]_vars

\* a request answered with HTTP 401 has ended with an error badge carrying 401,
\* on a page of several nodes
HttpFailureRendered ==
    \E r \in Requests :
        /\ HttpFailed(r)
        /\ procs[r].outcome.status = 401
        /\ procs[r].st = "errored"
        /\ ErrorBadgeOn(badges, r)
        /\ procs[r].id \in processedCards
        /\ Len(page) > 1

\* C7: every score badge has the tier of its score: excellent from 20, good
\* for 10..19, fair for 5..9, poor for 0..4, negative below 0.
TierOfScore ==
    \A b \in AllBadges :
        b.kind = "score" =>
            /\ b.score >= 20 <=> b.tier = "score-excellent"
            /\ (b.score >= 10 /\ b.score <= 19) <=> b.tier = "score-good"
            /\ (b.score >= 5 /\ b.score <= 9) <=> b.tier = "score-fair"
            /\ (b.score >= 0 /\ b.score <= 4) <=> b.tier = "score-poor"
            /\ b.score < 0 <=> b.tier = "score-negative"

\* a score badge at the boundary 20 has been rendered
BoundaryScoreRendered ==
    \E b \in AllBadges : b.kind = "score" /\ b.score = 20 /\ b.tier = "score-excellent"

Identified == probe.ids # <<>>

ScanStep ==
    \/ ~initialized /\ initialized' /\ urlOk
    \/ resets' # resets
    \/ page' # page /\ observing

\* the elements the step's scan goes over: the added nodes and what is inside
\* them, or the whole document
Scanned ==
    IF page' # page
    THEN {e \in ElementNames :
            InSeq(e, DocumentOrder(SubSeq(page', Len(page) + 1, Len(page')), 1))}
    ELSE Attached

\* C9: after a scan, every valid card it went over whose identity can be
\* computed is processed: its identity is in processedCards or it has a badge.
RemainingCardsProcessed ==
    [][ScanStep =>
        \A e \in Scanned :
            (isInvitationCard(badges, e) /\ getCardId(badges, e) # InvalidCharacter)
                => \/ getCardId(badges', e) \in processedCards'
                   \/ HasBadge(badges', e)]_vars

FailingOutcomes == {"networkError", "http", "notJson", "otherShape", "unparseable"}

\* C10: a scoreProfile message that was handled got exactly one reply, of the
\* shape {success: true, score, reasoning} or {success: false, error}; the
\* reply is a failure whenever the provider is unknown, the POST failed, the
\* body was not the expected JSON or the payload was malformed.
OneStructuredReply ==
    \A r \in Requests :
        /\ procs[r].st # "unanswered"
        /\ Len(procs[r].responses) <= 1
        /\ procs[r].st \in {"replied", "scored"} => Len(procs[r].responses) = 1
        /\ \A i \in 1..Len(procs[r].responses) :
              /\ IF procs[r].responses[i].success
                 THEN /\ procs[r].responses[i].error = Undefined
                      /\ procs[r].responses[i].reasoning # Undefined
                 ELSE /\ procs[r].responses[i].error # Undefined
                      /\ procs[r].responses[i].error.tpl # ""
                      /\ procs[r].responses[i].reasoning = Undefined
              /\ (\/ procs[r].outcome.kind \in FailingOutcomes
                  \/ Malformed(r)
                  \/ ApiConfig(settings.modelProvider) # "config")
                    => ~procs[r].responses[i].success

\* a request whose POST failed in transport has been answered with a failure
TransportFailureAnswered ==
    \E r \in Requests :
        /\ procs[r].outcome.kind = "networkError"
        /\ Len(procs[r].responses) = 1
        /\ ~procs[r].responses[1].success

\* C11: every {success: true} reply carries a non-empty reasoning.
SuccessHasReasoning ==
    \A r \in Requests :
        \A i \in 1..Len(procs[r].responses) :
            procs[r].responses[i].success => procs[r].responses[i].reasoning.tpl # ""

\* the tier table: >= 20 excellent, >= 10 good, >= 5 fair, >= 0 poor, else negative
TierFor(n) ==
    CASE n >= 20 -> "score-excellent"
      [] n >= 10 /\ n < 20 -> "score-good"
      [] n >= 5 /\ n < 10 -> "score-fair"
      [] n >= 0 /\ n < 5 -> "score-poor"
      [] OTHER -> "score-negative"

WellFormed(r) ==
    procs[r].outcome.kind = "decoded" /\ ~ViolatesShape(procs[r].outcome.value)

\* the badge is the score badge of request r for the payload the provider gave
ScoreBadgeOf(b, r) ==
    /\ b.kind = "score"
    /\ b.req = r
    /\ b.score = procs[r].outcome.value.totalScore.num
    /\ b.tier = TierFor(procs[r].outcome.value.totalScore.num)
    /\ b.title = Msg(procs[r].outcome.value.reasoning.str)

\* C12: when the provider returns a well-formed payload, the reply carries its
\* score and reasoning, every badge rendered for the request other than the
\* loading badge is a score badge with the tier of that score and that
\* reasoning as title, and the step that resumes processInvitationCard leaves
\* such a badge on the card.
WellFormedRendered ==
    /\ [](\A r \in Requests :
            WellFormed(r) =>
                /\ procs[r].responses =
                        <<Success(procs[r].outcome.value.totalScore.num,
                                  Msg(procs[r].outcome.value.reasoning.str))>>
                /\ \A b \in AllBadges :
                      b.req = r => b.kind = "loading" \/ ScoreBadgeOf(b, r))
    /\ [][\A r \in Requests :
            (WellFormed(r) /\ procs[r].st = "replied" /\ procs'[r].st # "replied")
                => /\ procs'[r].st = "scored"
                   /\ \E i \in 1..Len(BadgesIn(badges', procs[r].card)) :
                         ScoreBadgeOf(BadgesIn(badges', procs[r].card)[i], r)]_vars

\* the payload {totalScore: 21, reasoning} has ended as an excellent badge
\* with the provider's reasoning as title
ExcellentBadgeRendered ==
    \E r \in Requests : \E b \in AllBadges :
        /\ procs[r].st = "scored"
        /\ procs[r].outcome.value = JObject(JNum(21), JStr(Reasoning))
        /\ ScoreBadgeOf(b, r)
        /\ b.tier = "score-excellent"
        /\ b.title = Msg(Reasoning)

Configured ==
    settings.modelProvider # "" /\ settings.modelSelection # "" /\ settings.apiKey # ""

\* C13: with a provider other than openai, gemini and anthropic, a handled
\* request is answered with the Unsupported provider error and no POST is issued.
UnsupportedProviderRejected ==
    \A r \in Requests :
        (/\ procs[r].responses # <<>>
         /\ Configured
         /\ settings.modelProvider \notin {"openai", "gemini", "anthropic"})
            => /\ procs[r].posts = 0
               /\ ~procs[r].responses[1].success
               /\ procs[r].responses[1].error.tpl = "Unsupported provider: ${provider}"
               /\ procs[r].responses[1].error.body = settings.modelProvider

\* C14: a handled request fails with the invalid-JSON error when, and only
\* when, the extracted text payload could not be parsed, and with the
\* invalid-format error whenever the payload parsed but violates the shape.
DecodeAndShapeErrorsDistinct ==
    \A r \in Requests :
        procs[r].responses # <<>> =>
            /\ procs[r].outcome.kind = "unparseable"
                 => procs[r].responses[1].error.tpl = "LLM returned invalid JSON response"
            /\ Malformed(r)
                 => procs[r].responses[1].error.tpl = "Invalid response format from LLM"
            /\ procs[r].responses[1].error.tpl = "LLM returned invalid JSON response"
                 => procs[r].outcome.kind = "unparseable"

Terminal == {"scored", "skipped", "errored"}

\* C15: between two resets processInvitationCard is entered at most once per
\* identity; a request moves only from sent to replied, scored or errored; a
\* scored, skipped or errored request never changes again, and until the next
\* reset its identity stays in processedCards, so it is not retried.
IdentityLifecycle ==
    /\ [](\A r \in Requests :
            /\ procs[r].st \in {"sent", "replied"} \cup Terminal
            /\ procs[r].epoch = resets => procs[r].id \in processedCards
            /\ \A q \in Requests :
                  (q # r /\ procs[q].epoch = procs[r].epoch)
                    => procs[q].id # procs[r].id)
    /\ [][/\ Len(procs') >= Len(procs)
          /\ \A r \in Requests :
                /\ procs[r].st \in Terminal => procs'[r] = procs[r]
                /\ procs[r].st = "sent"
                     => procs'[r].st \in {"sent", "replied", "errored"}
                /\ procs[r].st = "replied"
                     => procs'[r].st \in {"replied", "scored", "errored"}]_vars

\* a request ended in the catch of processInvitationCard, and another attached
\* card with the same identity has not been processed since
ErroredNotRetried ==
    \E r \in Requests : \E e \in Attached :
        /\ procs[r].st = "errored"
        /\ procs[r].responses = <<>>
        /\ procs[r].epoch = resets
        /\ e # procs[r].card
        /\ getCardId(badges, e) = procs[r].id
        /\ Len(procs) = 1

\* the badges of a slot that were rendered for other requests than r
BadgesOfOthers(bd, sl, r) == SelectSeq(bd[sl], LAMBDA b : b.req # r)

\* C16: the step that completes a request (score badge, error badge of a
\* failure reply, or the catch) leaves processedCards and every badge of the
\* other requests as they were.
CompletionTouchesOwnBadge ==
    [][\A r \in Requests :
        (procs[r].st \in {"sent", "replied"} /\ procs'[r].st \in {"scored", "errored"})
            => /\ processedCards' = processedCards
               /\ \A sl \in Slots :
                     BadgesOfOthers(badges', sl, r) = BadgesOfOthers(badges, sl, r)]_vars

\* C17: when the observed page adds nodes, every valid card among them or
\* inside them that is not yet processed is passed to processInvitationCard in
\* the observer's callback, unless an earlier card of the batch took its
\* identity.
AddedCardsProcessed ==
    [][(page' # page /\ observing) =>
        \A e \in Scanned :
            (/\ isInvitationCard(badges, e)
             /\ getCardId(badges, e) \notin processedCards)
                => \/ \E q \in (Len(procs) + 1)..Len(procs') : procs'[q].card = e
                   \/ getCardId(badges', e) \in processedCards']_vars

\* C18: no card that bears a badge is in the list findInvitationCards returns,
\* and no card bore a badge when processInvitationCard was called for it.
BadgedCardNeverProcessed ==
    /\ \A i \in 1..Len(findInvitationCards(badges, page)) :
          BadgesIn(badges, findInvitationCards(badges, page)[i]) = <<>>
    /\ \A r \in Requests : ~procs[r].badged

\* a card processed before an extensionReloaded reset still bears its badge
\* after the re-scan and has not been processed again
BadgedCardSurvivedRescan ==
    \E r \in Requests :
        /\ resets > procs[r].epoch
        /\ BadgesIn(badges, procs[r].card) # <<>>
        /\ \A q \in Requests : q # r => procs[q].card # procs[r].card

\* C19: a handled request has issued at most one POST, and exactly one
\* whenever the provider was reached, whatever the outcome.
SinglePost ==
    \A r \in Requests :
        /\ procs[r].posts <= 1
        /\ procs[r].outcome # NoOutcome => procs[r].posts = 1

\* a request answered with status 500 has ended with one POST issued
FailedRequestPostedOnce ==
    \E r \in Requests :
        /\ procs[r].outcome.kind = "http"
        /\ procs[r].outcome.status = 500
        /\ procs[r].posts = 1
        /\ procs[r].st = "errored"

\* C20: when the script started on a page that is not the invitation
\* manager's, processInvitationCard is never called and no badge exists.
OffPageNothingHappens ==
    ~urlOk => procs = <<>> /\ AllBadges = {}

\* the badges rendered for request r, in any slot
BadgesOfRequest(bd, r) ==
    UNION {{bd[sl][i] : i \in {j \in 1..Len(bd[sl]) : bd[sl][j].req = r}} : sl \in Slots}

\* C21: the step that handles extensionReloaded sends no second request for a
\* card whose request is still in flight, and the reply of a request that was
\* in flight during a reset ends in exactly one badge of that request, a score
\* or an error badge.
ResetKeepsPendingRequest ==
    /\ [][resets' # resets =>
            \A r \in Requests :
                procs[r].st \in {"sent", "replied"} =>
                    \A q \in (Len(procs) + 1)..Len(procs') :
                        procs'[q].card # procs[r].card]_vars
    /\ [][\A r \in Requests :
            (/\ procs[r].st = "replied"
             /\ procs'[r].st # "replied"
             /\ procs[r].epoch < resets)
                => /\ Cardinality(BadgesOfRequest(badges', r)) = 1
                   /\ \A b \in BadgesOfRequest(badges', r) :
                         b.kind \in {"score", "error"}]_vars

\* C22: when modelProvider, modelSelection or apiKey is empty, a handled
\* request is answered once with the not-configured failure, and no POST is
\* issued.
UnconfiguredRejected ==
    \A r \in Requests :
        (procs[r].responses # <<>> /\ ~Configured) =>
            /\ procs[r].responses = <<Failure(Msg(
                  "Extension not configured. Please set up your API key in the popup."))>>
            /\ procs[r].posts = 0
            /\ procs[r].outcome = NoOutcome

\* with only the model missing, a request has ended in an error badge that
\* carries the not-configured message
UnconfiguredRendered ==
    \E r \in Requests : \E b \in AllBadges :
        /\ settings.modelProvider # ""
        /\ settings.modelSelection = ""
        /\ settings.apiKey # ""
        /\ procs[r].st = "errored"
        /\ procs[r].posts = 0
        /\ b.req = r
        /\ b.kind = "error"
        /\ b.title.tpl = "Extension not configured. Please set up your API key in the popup."

\* one element is inside the other
Nested(e1, e2) == InSeq(e1, Descendants(e2)) \/ InSeq(e2, Descendants(e1))

\* the identity of every element as the host page renders it, without badges
PristineId == [e \in ElementNames |-> getCardId(EmptyWorld.badges, e)]

\* e is another element with the identity of request r, not processed in an
\* earlier lifetime and not nested with the request's card
Collides(e, r) ==
    /\ e # procs[r].card
    /\ MatchesCardSelector(e)
    /\ PristineId[e] = procs[r].id
    /\ ~Nested(e, procs[r].card)
    /\ \A q \in Requests : procs[q].card = e => procs[q].epoch >= procs[r].epoch

\* C23: when a card has been processed, another card with the same identity
\* is not processed in the same lifetime, and until a reset it bears no badge,
\* whether the first was scored, skipped or errored.
CollidingCardLeftAlone ==
    \A r \in Requests : \A e \in ElementNames :
        Collides(e, r) =>
            /\ \A q \in Requests :
                  procs[q].card = e => procs[q].epoch # procs[r].epoch
            /\ procs[r].epoch = resets => BadgesIn(badges, e) = <<>>

\* the first of two attached cards with one identity has been scored, and the
\* second has no request and no badge
SecondCardBare ==
    \E r \in Requests : \E e \in Attached :
        /\ Collides(e, r)
        /\ procs[r].st = "scored"
        /\ procs[r].epoch = resets
        /\ observing
        /\ Len(procs) = 1
        /\ BadgesIn(badges, e) = <<>>
====
